---- MODULE Spec2Model ----
(***************************************************************************)
(* Model of the TSDB migration microservice                                *)
(* (microservices/TSDB_MIGRATION/tsdb_migration.py).                       *)
(*                                                                         *)
(* An object key is a record [dirs, name]: dirs is the sequence of the     *)
(* "/"-separated directory segments of the key, name the file name.  A     *)
(* file name is a record of the fields the filename encodes (timestamp,    *)
(* target, packet) and its extension.                                      *)
(***************************************************************************)
EXTENDS Integers, Sequences, FiniteSets, TLC

\* ------------------------------------------------------------------ bounds
MaxFiles == 2        \* objects present in the bucket at start
MaxBatch == 2        \* largest BATCH_SIZE option
MaxPause == 2        \* largest FILES_BEFORE_PAUSE option
MaxFaults == 1       \* failures of external calls per run
MaxCalls == 3        \* calls of _load_table_schema in a sequence of calls

\* ------------------------------------------------------- values and names
None == "<None>"
Scope == "DEFAULT"

TlmPrefix == <<Scope, "decom_logs", "tlm">>
CmdPrefix == <<Scope, "decom_logs", "cmd">>

FName(ts, target, packet, ext) ==
    [ts |-> ts, target |-> target, packet |-> packet, ext |-> ext]

Key(dirs, name) == [dirs |-> dirs, name |-> name]

\* A decoded packet: its target and packet name, and whether
\* process_json_data yields a non-empty column map for it.
Pkt(target, packet, cols) == [target |-> target, packet |-> packet, cols |-> cols]

Body(gz, pkts) == [gz |-> gz, pkts |-> pkts]

\* The objects that may be present under the log prefixes when a run starts,
\* in the order the object store lists them, with their content.
Universe ==
    << [key  |-> Key(TlmPrefix \o <<"INST">>, FName(300, "INST", "ALL", "bin.gz")),
        body |-> Body(TRUE, << Pkt("INST", "HEALTH", TRUE), Pkt("INST", "ADCS", FALSE),
                               Pkt("INST", "HEALTH", TRUE), Pkt("INST", "ADCS", TRUE) >>)],
       [key  |-> Key(TlmPrefix \o <<"INST", "20260101">>, FName(300, "INST", "HEALTH", "bin")),
        body |-> Body(FALSE, << Pkt("INST", "HEALTH", TRUE), Pkt("INST", "HEALTH", TRUE) >>)],
       [key  |-> Key(TlmPrefix \o <<"INST", "20260101">>, FName(200, "INST", "HEALTH", "bin")),
        body |-> Body(FALSE, << Pkt("INST", "HEALTH", FALSE) >>)],
       [key  |-> Key(TlmPrefix \o <<"OLD", "20260101">>, FName(300, "OLD", "ALL", "bin")),
        body |-> Body(FALSE, << Pkt("OLD", "HEALTH", TRUE) >>)],
       [key  |-> Key(CmdPrefix \o <<"INST", "20260101">>, FName(300, "INST", "ABORT", "bin")),
        body |-> Body(FALSE, << Pkt("INST", "ABORT", TRUE) >>)] >>

UKeys == { Universe[i].key : i \in 1..Len(Universe) }
UIndex(k) == CHOOSE i \in 1..Len(Universe) : Universe[i].key = k
UBody(k) == Universe[UIndex(k)].body

\* The definitions the live system may hold.
LiveTargets == {"INST"}
LiveTlm == [t \in LiveTargets |-> {"HEALTH", "ADCS"}]
LiveCmd == [t \in LiveTargets |-> {"ABORT"}]

\* ------------------------------------------------------------ sequences
Range(s) == { s[i] : i \in 1..Len(s) }

IsPrefix(p, s) == Len(p) <= Len(s) /\ SubSeq(s, 1, Len(p)) = p

\* -------------------------------------------------- bin_file_processor
\* extract_timestamp_from_filename: the timestamp the file name encodes.
extract_timestamp_from_filename(f) == f.name.ts

\* parse_target_packet_from_filename: <<target, packet>>, None where the
\* name does not encode one.
parse_target_packet_from_filename(f) == << f.name.target, f.name.packet >>

\* ------------------------------------------------------------ the bucket
\* list_files(bucket, path): the names of the sub-directories and of the
\* files directly under a prefix, in listing order.
DirList(keys, prefix) ==
    LET idx == { i \in 1..Len(Universe) :
                    /\ Universe[i].key \in keys
                    /\ IsPrefix(prefix, Universe[i].key.dirs)
                    /\ Len(Universe[i].key.dirs) > Len(prefix) }
        nm(i) == Universe[i].key.dirs[Len(prefix) + 1]
        first == { i \in idx : \A j \in idx : nm(j) = nm(i) => i <= j }
        RECURSIVE InOrder(_)
        InOrder(S) == IF S = {} THEN << >>
                      ELSE LET m == CHOOSE i \in S : \A j \in S : i <= j
                           IN <<nm(m)>> \o InOrder(S \ {m})
    IN InOrder(first)

FileList(keys, prefix) ==
    LET idx == { i \in 1..Len(Universe) :
                    /\ Universe[i].key \in keys
                    /\ Universe[i].key.dirs = prefix }
        RECURSIVE InOrder(_)
        InOrder(S) == IF S = {} THEN << >>
                      ELSE LET m == CHOOSE i \in S : \A j \in S : i <= j
                           IN <<Universe[m].key.name>> \o InOrder(S \ {m})
    IN InOrder(idx)

\* _list_files_recursive: breadth-first walk from a prefix; a prefix whose
\* listing raises (bad) contributes nothing.
RECURSIVE Walk(_, _, _, _)
Walk(keys, bad, dirs_to_process, all_files) ==
    IF dirs_to_process = << >> THEN all_files
    ELSE LET current_prefix == Head(dirs_to_process)
             rest == Tail(dirs_to_process)
         IN IF current_prefix \in bad
            THEN Walk(keys, bad, rest, all_files)
            ELSE LET dl == DirList(keys, current_prefix)
                     fl == FileList(keys, current_prefix)
                 IN Walk(keys, bad,
                         rest \o [i \in 1..Len(dl) |-> current_prefix \o <<dl[i]>>],
                         all_files \o [i \in 1..Len(fl) |-> Key(current_prefix, fl[i])])

_list_files_recursive(keys, bad, prefix) == Walk(keys, bad, <<prefix>>, << >>)

\* A descending sort that puts a file before the earlier files of equal timestamp
RECURSIVE InsertDescTiesReversed(_, _)
InsertDescTiesReversed(sorted, f) ==
    IF sorted = << >> THEN <<f>>
    ELSE IF extract_timestamp_from_filename(Head(sorted))
              > extract_timestamp_from_filename(f)
         THEN <<Head(sorted)>> \o InsertDescTiesReversed(Tail(sorted), f)
         ELSE <<f>> \o sorted

\* files.sort(key=extract_timestamp_from_filename, reverse=True): a stable
\* sort, equal keys keep their order.
RECURSIVE InsertDesc(_, _)
InsertDesc(sorted, f) ==
    IF sorted = << >> THEN <<f>>
    ELSE IF extract_timestamp_from_filename(Head(sorted))
              >= extract_timestamp_from_filename(f)
         THEN <<Head(sorted)>> \o InsertDesc(Tail(sorted), f)
         ELSE <<f>> \o sorted

RECURSIVE SortDesc(_, _)
SortDesc(sorted, rest) ==
    IF rest = << >> THEN sorted
    ELSE SortDesc(InsertDesc(sorted, Head(rest)), Tail(rest))

IsLogFile(f) == f.name.ext \in {"bin", "bin.gz"}

_list_decom_files(keys, bad) ==
    LET tlm == SelectSeq(_list_files_recursive(keys, bad, TlmPrefix), IsLogFile)
        cmd == SelectSeq(_list_files_recursive(keys, bad, CmdPrefix), IsLogFile)
    IN SortDesc(<< >>, tlm \o cmd)

\* "/decom_logs/cmd/" in file_path
_is_command_file(f) ==
    \E i \in 2..(Len(f.dirs) - 1) : f.dirs[i] = "decom_logs" /\ f.dirs[i + 1] = "cmd"

\* A filter that looks the packet up in the telemetry set whatever the direction
ShouldProcessTlmOnly(f, vt, vtlm, vcmd) ==
    LET tp == parse_target_packet_from_filename(f)
        target_name == tp[1]
        packet_name == tp[2]
        valid_packets == IF target_name \in DOMAIN vtlm THEN vtlm[target_name] ELSE {}
    IN IF target_name = None \/ packet_name = None THEN FALSE
       ELSE IF target_name \notin vt THEN FALSE
       ELSE IF packet_name = "ALL" THEN TRUE
       ELSE packet_name \in valid_packets

\* _should_process_file against a snapshot (targets, tlm packets, cmd packets)
_should_process_file(f, vt, vtlm, vcmd) ==
    LET tp == parse_target_packet_from_filename(f)
        target_name == tp[1]
        packet_name == tp[2]
        valid_packets ==
            IF _is_command_file(f)
            THEN (IF target_name \in DOMAIN vcmd THEN vcmd[target_name] ELSE {})
            ELSE (IF target_name \in DOMAIN vtlm THEN vtlm[target_name] ELSE {})
    IN IF target_name = None \/ packet_name = None THEN FALSE
       ELSE IF target_name \notin vt THEN FALSE
       ELSE IF packet_name = "ALL" THEN TRUE
       ELSE IF packet_name \notin valid_packets THEN FALSE
       ELSE TRUE

\* original_path.replace("/decom_logs/", "/<root>/decom_logs/", 1)
MirrorPath(f, root) ==
    LET hits == { i \in 2..Len(f.dirs) : f.dirs[i] = "decom_logs" }
    IN IF hits = {} THEN f
       ELSE LET i == CHOOSE h \in hits : \A g \in hits : h <= g
            IN Key(SubSeq(f.dirs, 1, i - 1) \o <<root>> \o SubSeq(f.dirs, i, Len(f.dirs)),
                   f.name)

\* ------------------------------------------------------ program constants
DefaultBatchSize == 1000
DefaultFilesBeforePause == 10

\* --------------------------------------------------------------- state
VARIABLES
    bucket,             \* object store: key -> content, for the existing objects
    checkpoint,         \* persisted progress record of the scope: << >> or <<record>>
    faults,             \* failures of external calls the environment may still inject
    batch_size, files_before_pause,
    pc,                 \* position of run()
    spc,                \* position of shutdown()
    state, error, cancel_thread,
    canceled,           \* Sleeper.canceled
    qdb,                \* QuestDB client: [ingest, query] connection open?
    pending,            \* rows written to the sender and not yet flushed
    valid_targets, valid_tlm_packets, valid_cmd_packets,
    files_processed, packets_ingested, errors_count,
    loaded_schemas,
    tracked,            \* QuestDBClient column tracking: varchar_columns,
                        \* json_columns, float_bit_sizes, decimal_int_columns
    queries,            \* per table: SHOW COLUMNS queries issued for it
    catalog,            \* the list _list_decom_files returned
    files, idx, files_since_pause,
    data, pos, packets_in_file, had_error, batch_count,
    bound,              \* _process_file: table_name/columns/packet are assigned
    \* history of the run (not read by the program)
    visited,            \* files _process_file was called for, in order
    routes,             \* per visited file: the mirror root run() chose
    moveRes,            \* per visited file: how the move ended
    raised,             \* per visited file: an exception reached the handler
    puts,               \* keys written by put_object
    flushes,            \* flush calls issued for the current file
    broke,              \* the packet loop of the current file was left by break
    submitted,          \* rows of the current file the sender accepted
    wlog,               \* for the file in progress: write_row calls that raised
                        \* IngressError (wfails) or another exception (wother),
                        \* handle_ingress_error calls made for a row (recov),
                        \* those that raised (rfail)
    pauses,             \* pauses begun
    loads,              \* calls of _load_valid_targets_packets
    failed_lists,       \* <<target, direction>> whose packet list failed to load
    bucket0,            \* the object store when the run started
    arg, ret            \* input and result of a single function application

envVars  == << bucket, checkpoint, faults, bucket0 >>
optVars  == << batch_size, files_before_pause >>
defVars  == << valid_targets, valid_tlm_packets, valid_cmd_packets, loads, failed_lists >>
cntVars  == << files_processed, packets_ingested, errors_count >>
listVars == << catalog, files >>
fileVars == << data, pos, packets_in_file, had_error, batch_count, bound, flushes, broke,
              submitted >>
histVars == << visited, routes, moveRes, raised, puts, pauses, wlog >>
sdVars   == << spc, cancel_thread, canceled >>
fnVars   == << arg, ret >>
schVars  == << loaded_schemas, tracked, queries >>

vars == << bucket, checkpoint, faults, batch_size, files_before_pause, pc, spc,
           state, error, cancel_thread, canceled, qdb, pending,
           valid_targets, valid_tlm_packets, valid_cmd_packets,
           files_processed, packets_ingested, errors_count, loaded_schemas,
           catalog, files, idx, files_since_pause,
           data, pos, packets_in_file, had_error, batch_count, bound,
           visited, routes, moveRes, raised, puts, flushes, broke, pauses, loads,
           failed_lists, bucket0, arg, ret, submitted, wlog, tracked, queries >>

St(name, i, n) == [name |-> name, i |-> i, n |-> n]

\* QuestDBClient.__init__: the four column tracking dictionaries, empty.
\* A dictionary whose values are all True is the set of its keys;
\* float_bit_sizes is the set of its <<key, bits>> items.
NoTracking == [varchar_columns |-> {}, json_columns |-> {}, float_bit_sizes |-> {},
               decimal_int_columns |-> {}]

NoWrites == [wfails |-> 0, wother |-> 0, recov |-> 0, rfail |-> 0]

\* The bucket holding exactly the universe objects with the given indices.
BucketOf(S) ==
    [k \in { Universe[i].key : i \in S } |-> UBody(k)]

\* The fields __init__ sets that do not depend on the options, and the
\* history, empty.
InitFields ==
    /\ faults = MaxFaults
    /\ spc = "ready"
    /\ state = St("INITIALIZED", 0, 0)
    /\ error = None
    /\ cancel_thread = FALSE
    /\ canceled = FALSE
    /\ qdb = [ingest |-> FALSE, query |-> FALSE]
    /\ pending = 0
    /\ files_processed = 0
    /\ packets_ingested = 0
    /\ errors_count = 0
    /\ loaded_schemas = {}
    /\ tracked = NoTracking
    /\ queries = [t \in {} |-> 0]
    /\ catalog = << >>
    /\ files = << >>
    /\ idx = 0
    /\ files_since_pause = 0
    /\ data = << >>
    /\ pos = 0
    /\ packets_in_file = 0
    /\ had_error = FALSE
    /\ batch_count = 0
    /\ bound = FALSE
    /\ visited = << >>
    /\ routes = << >>
    /\ moveRes = << >>
    /\ raised = << >>
    /\ puts = {}
    /\ flushes = 0
    /\ broke = FALSE
    /\ submitted = 0
    /\ wlog = NoWrites
    /\ pauses = 0
    /\ loads = 0
    /\ failed_lists = {}
    /\ ret = << >>

\* The state after __init__ when run() is about to be called, given the
\* bucket, the checkpoint and the options.
InitWith(b, cp, bs, fbp) ==
    /\ InitFields
    /\ bucket = b
    /\ bucket0 = b
    /\ checkpoint = cp
    /\ batch_size = bs
    /\ files_before_pause = fbp
    /\ pc = "start"
    /\ valid_targets = {}
    /\ valid_tlm_packets = [t \in {} |-> {}]
    /\ valid_cmd_packets = [t \in {} |-> {}]
    /\ arg = << >>

Init ==
    \E S \in SUBSET (1..Len(Universe)) :
    \E bs \in {1, MaxBatch}, fbp \in {1, MaxPause} :
        /\ Cardinality(S) <= MaxFiles
        /\ InitWith(BucketOf(S), << >>, bs, fbp)

\* ------------------------------------------------------------- run()
\* A handler that records the error and falls through to the idle loop
FatalThenIdle(e) ==
    /\ error' = e
    /\ state' = [name |-> "ERROR", i |-> 0, n |-> 0]
    /\ pc' = "idle"

\* except Exception as e (run): self.error = e; self.state = "ERROR";
\* control reaches the finally clause.
Fatal(e) ==
    /\ error' = e
    /\ state' = St("ERROR", 0, 0)
    /\ pc' = "finally"

\* A sleep that always runs its full time
sleep_to_the_end(c) == FALSE

\* self.sleeper.sleep(seconds): returns True when the sleeper is cancelled
sleep(c) == c

\* if self.sleeper.sleep(self.initial_delay): return
InitialDelay ==
    /\ pc = "start"
    /\ IF sleep(canceled)
       THEN pc' = "returned" /\ state' = state
       ELSE pc' = "connect_ingest" /\ state' = St("STARTING", 0, 0)
    /\ UNCHANGED << envVars, optVars, defVars, cntVars, listVars, fileVars, histVars,
                    sdVars, fnVars, error, qdb, pending, schVars, idx,
                    files_since_pause >>

\* self.questdb.connect_ingest()
ConnectIngest ==
    /\ pc = "connect_ingest"
    /\ \/ /\ qdb' = [qdb EXCEPT !.ingest = TRUE]
          /\ pc' = "connect_query"
          /\ UNCHANGED << faults, error, state >>
       \/ /\ faults > 0
          /\ faults' = faults - 1
          /\ Fatal("connect_ingest")
          /\ UNCHANGED qdb
    /\ UNCHANGED << bucket, checkpoint, bucket0, optVars, defVars, cntVars, listVars,
                    fileVars, histVars, sdVars, fnVars, pending, schVars, idx,
                    files_since_pause >>

\* self.questdb.connect_query()
ConnectQuery ==
    /\ pc = "connect_query"
    /\ \/ /\ qdb' = [qdb EXCEPT !.query = TRUE]
          /\ pc' = "load_defs"
          /\ UNCHANGED << faults, error, state >>
       \/ /\ faults > 0
          /\ faults' = faults - 1
          /\ Fatal("connect_query")
          /\ UNCHANGED qdb
    /\ UNCHANGED << bucket, checkpoint, bucket0, optVars, defVars, cntVars, listVars,
                    fileVars, histVars, sdVars, fnVars, pending, schVars, idx,
                    files_since_pause >>

\* A snapshot that drops a target one of whose packet lists failed to load
SnapshotDropsFailed(fl) ==
    [targets |-> { t \in LiveTargets : <<t, "tlm">> \notin fl /\ <<t, "cmd">> \notin fl },
     tlm |-> [t \in LiveTargets |-> IF <<t, "tlm">> \in fl THEN {} ELSE LiveTlm[t]],
     cmd |-> [t \in LiveTargets |-> IF <<t, "cmd">> \in fl THEN {} ELSE LiveCmd[t]]]

\* _load_valid_targets_packets: the snapshot taken when the packet lists in
\* fl fail to load.
Snapshot(fl) ==
    [targets |-> LiveTargets,
     tlm |-> [t \in LiveTargets |-> IF <<t, "tlm">> \in fl THEN {} ELSE LiveTlm[t]],
     cmd |-> [t \in LiveTargets |-> IF <<t, "cmd">> \in fl THEN {} ELSE LiveCmd[t]]]

LoadValidTargetsPackets ==
    /\ pc = "load_defs"
    /\ loads' = loads + 1
    /\ \/ \E fl \in SUBSET (LiveTargets \X {"tlm", "cmd"}) :
             /\ Cardinality(fl) <= faults
             /\ faults' = faults - Cardinality(fl)
             /\ failed_lists' = fl
             /\ valid_targets' = Snapshot(fl).targets
             /\ valid_tlm_packets' = Snapshot(fl).tlm
             /\ valid_cmd_packets' = Snapshot(fl).cmd
             /\ pc' = "list"
             /\ UNCHANGED << error, state >>
       \/ /\ faults > 0                \* get_target_names raises
          /\ faults' = faults - 1
          /\ Fatal("get_target_names")
          /\ UNCHANGED << valid_targets, valid_tlm_packets, valid_cmd_packets,
                          failed_lists >>
    /\ UNCHANGED << bucket, checkpoint, bucket0, optVars, cntVars, listVars, fileVars,
                    histVars, sdVars, fnVars, qdb, pending, schVars, idx,
                    files_since_pause >>

\* The prefixes a listing may be asked for.
Prefixes(keys) ==
    {TlmPrefix, CmdPrefix} \cup
    UNION { { SubSeq(k.dirs, 1, n) : n \in 3..Len(k.dirs) } : k \in keys \cap UKeys }

\* files = self._list_decom_files();
\* files = [f for f in files if self._should_process_file(f)]
ListAndFilter ==
    /\ pc = "list"
    /\ \E bad \in SUBSET Prefixes(DOMAIN bucket) :
          /\ Cardinality(bad) <= faults
          /\ faults' = faults - Cardinality(bad)
          /\ LET listed == _list_decom_files(DOMAIN bucket, bad)
                 eligible(f) == _should_process_file(f, valid_targets,
                                                     valid_tlm_packets, valid_cmd_packets)
             IN /\ catalog' = listed
                /\ files' = SelectSeq(listed, eligible)
    /\ files_since_pause' = 0
    /\ idx' = 0
    /\ pc' = "loop"
    /\ UNCHANGED << bucket, checkpoint, bucket0, optVars, defVars, cntVars, fileVars,
                    histVars, sdVars, fnVars, state, error, qdb, pending,
                    schVars >>

\* Leaving the file loop (catalog exhausted or break): self.state = "COMPLETE"
LeaveLoop ==
    /\ state' = St("COMPLETE", 0, 0)
    /\ pc' = "idle"

\* A move that deletes the original before it copies it
MoveOrderDeleteFirst == << "mv_delete", "mv_copy" >>

\* The order of the storage calls of _move_to_processed / _move_to_error:
\* get_object and put_object to the mirror path, then delete_object
MoveOrder == << "mv_copy", "mv_delete" >>

MoveStepAfter(step) == IF step = MoveOrder[1] THEN MoveOrder[2] ELSE "mv_end"

\* A routing that ignores had_error
RouteAlwaysProcessed(he) == "processed"

\* run(): the mirror root chosen from had_error
Route(he) == IF he THEN "error" ELSE "processed"

\* _process_file returns (packets_in_file, had_error); run() adds the
\* counters and goes on to move the file.
EndFile(pif, he, exc) ==
    /\ packets_in_file' = pif
    /\ had_error' = he
    /\ errors_count' = IF exc THEN errors_count + 1 ELSE errors_count
    /\ raised' = Append(raised, exc)
    /\ routes' = Append(routes, Route(he))
    /\ packets_ingested' = packets_ingested + pif
    /\ files_processed' = files_processed + 1
    /\ files_since_pause' = files_since_pause + 1
    /\ data' = << >>
    /\ pos' = 0
    /\ batch_count' = 0
    /\ pc' = MoveOrder[1]

\* except Exception (in _process_file): errors_count += 1; had_error = True
RaiseWith(pif) == EndFile(pif, TRUE, TRUE)

Raise == RaiseWith(packets_in_file)

\* _process_file: packets_in_file = 0; had_error = False; batch_count = 0
StartFile(d) ==
    /\ data' = d
    /\ pos' = 1
    /\ packets_in_file' = 0
    /\ had_error' = FALSE
    /\ batch_count' = 0
    /\ pc' = "packet"

\* gzip.decompress(data): raises for bytes that are not gzip data.
gzip_decompress(body) ==
    IF body.gz THEN [ok |-> TRUE, data |-> Body(FALSE, body.pkts)]
    ELSE [ok |-> FALSE, data |-> << >>]

\* _download_file: get_object, then gzip.decompress only for a key that
\* ends with ".gz"; the bytes of any other key are returned as stored.
_download_file(b, f) ==
    IF f \notin DOMAIN b THEN [ok |-> FALSE, data |-> << >>]
    ELSE IF f.name.ext = "bin.gz"
         THEN gzip_decompress(b[f])
         ELSE [ok |-> TRUE, data |-> b[f]]

\* self.bin_processor.process_bytes(data): the courses the decoder can take
\* on the bytes of a log file. Bytes that are still compressed are no log
\* file: the decoder raises on them or yields no packet.
process_bytes(body) ==
    IF body.gz THEN { [ok |-> FALSE, pkts |-> << >>], [ok |-> TRUE, pkts |-> << >>] }
    ELSE { [ok |-> TRUE, pkts |-> body.pkts] }

\* A state string that shows the zero-based index of the file
MigratingStateZeroBased(i, n) == [name |-> "MIGRATING", i |-> i, n |-> n]

\* self.state = f"MIGRATING {idx + 1}/{total_files}"
MigratingState(i, n) == St("MIGRATING", i + 1, n)

\* A test of the cancellation flag that never sees it set
CancelNeverSeen(flag) == FALSE

\* if self.cancel_thread: break   (file loop and packet loop)
CancelSeen(flag) == flag

\* for idx, file_path in enumerate(files): if self.cancel_thread: break;
\* self.state = f"MIGRATING {idx + 1}/{total_files}"; _process_file begins:
\* data = self._download_file(file_path)
LoopHead ==
    /\ pc = "loop"
    /\ IF idx >= Len(files) \/ CancelSeen(cancel_thread)
       THEN /\ LeaveLoop
            /\ UNCHANGED << faults, cntVars, fileVars, visited, routes, raised,
                            files_since_pause >>
       ELSE /\ state' = MigratingState(idx, Len(files))
            /\ visited' = Append(visited, files[idx + 1])
            /\ flushes' = 0
            /\ broke' = FALSE
            /\ bound' = FALSE
            /\ submitted' = 0
            /\ LET r == _download_file(bucket, files[idx + 1])
               IN \E d \in (IF r.ok THEN process_bytes(r.data)
                            ELSE { [ok |-> FALSE, pkts |-> << >>] }) :
                  \/ /\ d.ok
                     /\ StartFile(d.pkts)
                     /\ UNCHANGED << faults, cntVars, routes, raised, files_since_pause >>
                  \/ /\ ~d.ok
                     /\ RaiseWith(0)
                     /\ UNCHANGED faults
                  \/ /\ faults > 0
                     /\ faults' = faults - 1
                     /\ RaiseWith(0)
    /\ UNCHANGED << bucket, checkpoint, bucket0, optVars, defVars, listVars, sdVars,
                    fnVars, error, qdb, pending, schVars, idx, moveRes, puts,
                    pauses, wlog >>

\* QuestDBClient.sanitize_table_name(target, packet, cmd_or_tlm)
TableName(f, p) ==
    << IF _is_command_file(f) THEN "CMD" ELSE "TLM", p.target, p.packet >>

\* ------------------------------------------------- _load_table_schema
\* A row of SHOW COLUMNS: the column name, as its parts between "__", and
\* the column type as the destination spells it, character by character.
Col(name, type) == [name |-> name, type |-> type]

\* The tables the destination holds, with the rows SHOW COLUMNS returns for
\* them; the query raises for any other table.
DestTables ==
    { <<"TLM", "INST", "HEALTH">>, <<"CMD", "INST", "ABORT">> }

\* The type names _load_table_schema compares with, as their characters.
VARCHAR == << "V", "A", "R", "C", "H", "A", "R" >>
FLOAT   == << "F", "L", "O", "A", "T" >>
DOUBLE  == << "D", "O", "U", "B", "L", "E" >>
DECIMAL == << "D", "E", "C", "I", "M", "A", "L" >>

DestColumns(table_name) ==
    IF table_name = <<"TLM", "INST", "HEALTH">>
    THEN << Col(<<"TEMP">>, << "d", "o", "u", "b", "l", "e" >>),
            Col(<<"MODE", "C">>, VARCHAR),
            Col(<<"MODE", "F">>, VARCHAR),
            Col(<<"ARY">>, << "V", "a", "r", "c", "h", "a", "r" >>),
            Col(<<"CNT">>, DECIMAL),
            Col(<<"TS">>, << "T", "I", "M", "E", "S", "T", "A", "M", "P" >>) >>
    ELSE << Col(<<"ARG">>, FLOAT), Col(<<"ARG", "C">>, VARCHAR) >>

\* str.upper() on the letters a-z; any other character stays as it is.
LowerCase == << "a", "b", "c", "d", "e", "f", "g", "h", "i", "j", "k", "l", "m",
               "n", "o", "p", "q", "r", "s", "t", "u", "v", "w", "x", "y", "z" >>
UpperCase == << "A", "B", "C", "D", "E", "F", "G", "H", "I", "J", "K", "L", "M",
               "N", "O", "P", "Q", "R", "S", "T", "U", "V", "W", "X", "Y", "Z" >>

UpperChar(c) ==
    IF \E i \in 1..Len(LowerCase) : LowerCase[i] = c
    THEN UpperCase[CHOOSE i \in 1..Len(LowerCase) : LowerCase[i] = c]
    ELSE c

\* col_type.upper(), a string being the sequence of its characters
upper(col_type) == [i \in 1..Len(col_type) |-> UpperChar(col_type[i])]

\* col_name.endswith("__" + sfx)
endswith(col_name, sfx) == Len(col_name) > 1 /\ col_name[Len(col_name)] = sfx

\* self.questdb.float_bit_sizes[col_key] = bits
SetBits(sizes, col_key, bits) ==
    { it \in sizes : it[1] # col_key } \cup { << col_key, bits >> }

\* The body of "for row in cur.fetchall()" for one row.
RegisterColumn(tr, table_name, row) ==
    LET col_key == table_name \o row.name
        upper_type == upper(row.type)
    IN IF upper_type = VARCHAR
       THEN IF endswith(row.name, "C")
            THEN [tr EXCEPT !.varchar_columns = @ \cup {col_key}]
            ELSE IF ~endswith(row.name, "F")
                 THEN [tr EXCEPT !.json_columns = @ \cup {col_key}]
                 ELSE tr
       ELSE IF upper_type = FLOAT
       THEN [tr EXCEPT !.float_bit_sizes = SetBits(@, col_key, 32)]
       ELSE IF upper_type = DOUBLE
       THEN [tr EXCEPT !.float_bit_sizes = SetBits(@, col_key, 64)]
       ELSE IF upper_type = DECIMAL
       THEN [tr EXCEPT !.decimal_int_columns = @ \cup {col_key}]
       ELSE tr

RECURSIVE RegisterRows(_, _, _)
RegisterRows(tr, table_name, rows) ==
    IF rows = << >> THEN tr
    ELSE RegisterRows(RegisterColumn(tr, table_name, Head(rows)), table_name, Tail(rows))

\* What the try block of _load_table_schema went through: the rows it
\* registered, and whether an exception then ended it.
Outcome(rows, exc) == [rows |-> rows, raised |-> exc]

\* with self.questdb.query.cursor() as cur: cur.execute(SHOW COLUMNS ...):
\* raises on a closed connection and for a table the destination lacks.
ShowColumns(table_name, open) ==
    IF open /\ table_name \in DestTables
    THEN Outcome(DestColumns(table_name), FALSE)
    ELSE Outcome(<< >>, TRUE)

\* The courses the query of one call can take: it raises before any row or
\* after some rows are registered, or, for a table the destination holds,
\* it runs to the end.
QueryOutcomes(table_name) ==
    LET rows == IF table_name \in DestTables THEN DestColumns(table_name) ELSE << >>
    IN { Outcome(SubSeq(rows, 1, n), TRUE) : n \in 0..Len(rows) }
       \cup (IF table_name \in DestTables THEN { Outcome(rows, FALSE) } ELSE {})

\* One more query counted for the table.
Queried(q, table_name) ==
    [t \in DOMAIN q \cup {table_name} |->
        IF t = table_name
        THEN (IF t \in DOMAIN q THEN q[t] ELSE 0) + 1
        ELSE q[t]]

\* except Exception as e: self.logger.debug(...): nothing is raised again.
ExceptException(exc) == FALSE

\* A memo that records only the tables whose query went through
_load_table_schema_memo_on_success(table_name, ls, tr, q, out) ==
    IF table_name \in ls
    THEN [loaded_schemas |-> ls, tracked |-> tr, queries |-> q, raised |-> FALSE]
    ELSE [loaded_schemas |-> IF out.raised THEN ls ELSE ls \cup {table_name},
          tracked |-> RegisterRows(tr, table_name, out.rows),
          queries |-> Queried(q, table_name),
          raised |-> ExceptException(out.raised)]

\* _load_table_schema(table_name) on the memo ls, the tracking state tr and
\* the query count q, where the query takes the course out: the fields
\* after the call, and whether an exception reaches the caller.
_load_table_schema(table_name, ls, tr, q, out) ==
    IF table_name \in ls
    THEN [loaded_schemas |-> ls, tracked |-> tr, queries |-> q, raised |-> FALSE]
    ELSE [loaded_schemas |-> ls \cup {table_name},
          tracked |-> RegisterRows(tr, table_name, out.rows),
          queries |-> Queried(q, table_name),
          raised |-> ExceptException(out.raised)]

\* A batch test that lets one row more through
BatchFullStrict(count, size) == count > size

\* if batch_count >= self.batch_size
BatchFull(count, size) == count >= size

\* The sender accepted the row: packets_in_file += 1; batch_count += 1;
\* if batch_count >= self.batch_size: flush ...
RowWritten ==
    /\ pending' = pending + 1
    /\ submitted' = submitted + 1
    /\ packets_in_file' = packets_in_file + 1
    /\ batch_count' = batch_count + 1
    /\ IF BatchFull(batch_count + 1, batch_size)
       THEN pc' = "batch_flush" /\ pos' = pos
       ELSE pc' = "packet" /\ pos' = pos + 1
    /\ UNCHANGED << cntVars, data, had_error, routes, raised, files_since_pause >>

\* One iteration of "for packet in self.bin_processor.process_bytes(data)"
\* up to "if not columns: continue": the flag test, the schema load and
\* process_json_data. The schema query of a table not yet in the memo takes
\* the course the destination gives it, or the environment makes
\* cur.execute raise.
Packet ==
    /\ pc = "packet"
    /\ \/ /\ pos > Len(data)                         \* decoder exhausted
          /\ pc' = "final_flush"
          /\ UNCHANGED << faults, cntVars, fileVars, schVars, routes, raised,
                          files_since_pause >>
       \/ /\ faults > 0                              \* decoder raises
          /\ faults' = faults - 1
          /\ Raise
          /\ UNCHANGED << schVars, flushes, broke, bound, submitted >>
       \/ /\ pos <= Len(data)
          /\ CancelSeen(cancel_thread)               \* break
          /\ broke' = TRUE
          /\ pc' = "final_flush"
          /\ UNCHANGED << faults, cntVars, data, pos, packets_in_file, had_error,
                          batch_count, bound, flushes, schVars, routes, raised,
                          files_since_pause, submitted >>
       \/ /\ pos <= Len(data)
          /\ ~CancelSeen(cancel_thread)
          /\ LET table_name == TableName(files[idx + 1], data[pos])
                 given == ShowColumns(table_name, qdb.query)
             IN \E out \in {given} \cup (IF faults > 0 /\ table_name \notin loaded_schemas
                                         THEN { Outcome(<< >>, TRUE) } ELSE {}) :
                   LET r == _load_table_schema(table_name, loaded_schemas, tracked,
                                               queries, out)
                   IN /\ loaded_schemas' = r.loaded_schemas
                      /\ tracked' = r.tracked
                      /\ queries' = r.queries
                      /\ faults' = IF out = given THEN faults ELSE faults - 1
          /\ bound' = TRUE
          /\ IF ~data[pos].cols
             THEN pos' = pos + 1 /\ pc' = "packet"   \* if not columns: continue
             ELSE pos' = pos /\ pc' = "write"
          /\ UNCHANGED << cntVars, data, packets_in_file, had_error, batch_count,
                          flushes, broke, routes, raised, files_since_pause,
                          submitted >>
    /\ UNCHANGED << bucket, checkpoint, bucket0, optVars, defVars, listVars, sdVars,
                    fnVars, state, error, qdb, pending, idx, visited, moveRes, puts,
                    pauses, wlog >>

\* self.questdb.write_row(table_name, columns, packet.time_nsec) and its
\* except clause up to the call of handle_ingress_error.
WriteRow ==
    /\ pc = "write"
    /\ \/ /\ qdb.ingest                              \* write_row went through
          /\ RowWritten
          /\ UNCHANGED << faults, wlog >>
       \/ /\ qdb.ingest                              \* write_row raises IngressError
          /\ faults > 0
          /\ faults' = faults - 1
          /\ wlog' = [wlog EXCEPT !.wfails = @ + 1]
          /\ pc' = "recover"
          /\ UNCHANGED << cntVars, data, pos, packets_in_file, had_error,
                          batch_count, pending, routes, raised,
                          files_since_pause, submitted >>
       \/ /\ qdb.ingest                              \* write_row raises another
          /\ faults > 0                              \* exception
          /\ faults' = faults - 1
          /\ wlog' = [wlog EXCEPT !.wother = @ + 1]
          /\ Raise
          /\ UNCHANGED << pending, submitted >>
       \/ /\ ~qdb.ingest                             \* connection closed
          /\ wlog' = [wlog EXCEPT !.wother = @ + 1]
          /\ Raise
          /\ UNCHANGED << faults, pending, submitted >>
    /\ UNCHANGED << bucket, checkpoint, bucket0, optVars, defVars, listVars, sdVars,
                    fnVars, state, error, qdb, schVars, idx, bound, flushes, broke,
                    visited, moveRes, puts, pauses >>

\* A failed recovery that still counts the row
RecoveryRaisesRowCounted == RaiseWith(packets_in_file + 1)

\* handle_ingress_error raises: the exception leaves the packet loop before
\* packets_in_file += 1 and reaches the handler of the file.
RecoveryRaises == Raise

\* except IngressError as error: self.questdb.handle_ingress_error(error,
\* table_name, columns, packet.time_nsec): the schema is reconciled and the
\* row written again, or the recovery raises.
Recover ==
    /\ pc = "recover"
    /\ \/ /\ qdb.ingest
          /\ wlog' = [wlog EXCEPT !.recov = @ + 1]
          /\ RowWritten
       \/ /\ wlog' = [wlog EXCEPT !.recov = @ + 1, !.rfail = @ + 1]
          /\ RecoveryRaises
          /\ UNCHANGED << pending, submitted >>
    /\ UNCHANGED << envVars, optVars, defVars, listVars, sdVars, fnVars, state, error,
                    qdb, schVars, idx, bound, flushes, broke, visited, moveRes,
                    puts, pauses >>

\* A flush that is left out
FlushCallSkipped(Ok) ==
    /\ UNCHANGED << flushes, faults, pending >>
    /\ Ok

\* try: self.questdb.flush() / except IngressError: handle_ingress_error(...)
\* Ok is what follows a flush that went through (possibly after recovery),
\* an exception that leaves the try block reaches the handler of the file.
FlushCall(Ok) ==
    /\ flushes' = flushes + 1
    /\ \/ /\ qdb.ingest
          /\ UNCHANGED faults
          /\ pending' = 0
          /\ Ok
       \/ /\ qdb.ingest                  \* IngressError, recovered
          /\ faults > 0
          /\ bound
          /\ faults' = faults - 1
          /\ pending' = 0
          /\ Ok
       \/ /\ qdb.ingest                  \* IngressError, recovery raises
          /\ faults > 0
          /\ bound
          /\ faults' = faults - 1
          /\ UNCHANGED pending
          /\ Raise
       \/ /\ qdb.ingest                  \* IngressError with the handler's arguments
          /\ faults > 0                  \* unassigned, or another exception
          /\ faults' = faults - 1
          /\ UNCHANGED pending
          /\ Raise
       \/ /\ ~qdb.ingest                 \* connection closed
          /\ UNCHANGED << faults, pending >>
          /\ Raise

\* if batch_count >= self.batch_size: flush
BatchFlush ==
    /\ pc = "batch_flush"
    /\ FlushCall(/\ pc' = "batch_sleep"
                 /\ UNCHANGED << cntVars, data, pos, packets_in_file, had_error,
                                 batch_count, routes, raised, files_since_pause >>)
    /\ UNCHANGED << bucket, checkpoint, bucket0, optVars, defVars, listVars, sdVars,
                    fnVars, state, error, qdb, schVars, idx, visited,
                    moveRes, puts, pauses, bound, broke, submitted, wlog >>

\* if self.sleeper.sleep(self.sleep_seconds): break; batch_count = 0
BatchSleep ==
    /\ pc = "batch_sleep"
    /\ IF sleep(canceled)
       THEN /\ broke' = TRUE
            /\ pc' = "final_flush"
            /\ UNCHANGED << pos, batch_count >>
       ELSE /\ batch_count' = 0
            /\ pos' = pos + 1
            /\ pc' = "packet"
            /\ UNCHANGED broke
    /\ UNCHANGED << envVars, optVars, defVars, cntVars, listVars, sdVars, fnVars,
                    state, error, qdb, pending, schVars, idx, files_since_pause,
                    data, packets_in_file, had_error, bound, flushes, submitted,
                    histVars >>

\* Final flush, then return (packets_in_file, had_error)
FinalFlush ==
    /\ pc = "final_flush"
    /\ FlushCall(EndFile(packets_in_file, FALSE, FALSE))
    /\ UNCHANGED << bucket, checkpoint, bucket0, optVars, defVars, listVars, sdVars,
                    fnVars, state, error, qdb, schVars, idx, visited,
                    moveRes, puts, pauses, bound, broke, submitted, wlog >>

\* ---------------------------------------------------- moving the file
\* A put that refuses to replace an existing object
put_object_create_only(b, key, body) ==
    [ok |-> key \notin DOMAIN b,
     bucket |-> [k \in DOMAIN b \cup {key} |-> IF k = key THEN body ELSE b[k]]]

\* bucket.put_object: writes the object, replacing one of the same key
put_object(b, key, body) ==
    [ok |-> TRUE,
     bucket |-> [k \in DOMAIN b \cup {key} |-> IF k = key THEN body ELSE b[k]]]

\* bucket.delete_object
delete_object(b, key) == [k \in DOMAIN b \ {key} |-> b[k]]

\* A pause test that lets one file more through
PauseDueStrict(since, fbp) == since > fbp

\* if files_since_pause >= self.files_before_pause: self.state = "PAUSED"; sleep
PauseDue(since, fbp) == since >= fbp

\* The move returned (res tells how); run() goes on to the pause test.
EndMove(res) ==
    /\ moveRes' = Append(moveRes, res)
    /\ wlog' = NoWrites
    /\ IF PauseDue(files_since_pause, files_before_pause)
       THEN /\ state' = St("PAUSED", 0, 0)
            /\ pauses' = pauses + 1
            /\ pc' = "pause_sleep"
            /\ UNCHANGED idx
       ELSE /\ idx' = idx + 1
            /\ pc' = "loop"
            /\ UNCHANGED << state, pauses >>

\* A storage call of the move went through: on to the next one.
MoveOn ==
    IF MoveStepAfter(pc) = "mv_end"
    THEN EndMove("ok")
    ELSE /\ pc' = MoveStepAfter(pc)
         /\ UNCHANGED << moveRes, state, pauses, idx, wlog >>

\* get_object(original_path); put_object(mirror path, data)
MoveCopy ==
    /\ pc = "mv_copy"
    /\ LET orig == files[idx + 1]
           dest == MirrorPath(orig, routes[Len(routes)])
       IN \/ /\ orig \in DOMAIN bucket
             /\ LET r == put_object(bucket, dest, bucket[orig])
                IN IF r.ok
                   THEN /\ bucket' = r.bucket
                        /\ puts' = puts \cup {dest}
                        /\ MoveOn
                   ELSE /\ EndMove("put_refused")
                        /\ UNCHANGED << bucket, puts >>
             /\ UNCHANGED faults
          \/ /\ orig \notin DOMAIN bucket
             /\ EndMove("get_failed")
             /\ UNCHANGED << faults, bucket, puts >>
          \/ /\ faults > 0
             /\ faults' = faults - 1
             /\ EndMove("copy_failed")
             /\ UNCHANGED << bucket, puts >>
    /\ UNCHANGED << checkpoint, bucket0, optVars, defVars, cntVars, listVars,
                    fileVars, sdVars, fnVars, error, qdb, pending, schVars,
                    files_since_pause, visited, routes, raised >>

MoveDelete ==
    /\ pc = "mv_delete"
    /\ \/ /\ bucket' = delete_object(bucket, files[idx + 1])
          /\ MoveOn
          /\ UNCHANGED faults
       \/ /\ faults > 0
          /\ faults' = faults - 1
          /\ EndMove("delete_failed")
          /\ UNCHANGED bucket
    /\ UNCHANGED << checkpoint, bucket0, optVars, defVars, cntVars, listVars,
                    fileVars, sdVars, fnVars, error, qdb, pending, schVars,
                    files_since_pause, visited, routes, raised, puts >>

\* if self.sleeper.sleep(self.pause_seconds): break; files_since_pause = 0
PauseSleep ==
    /\ pc = "pause_sleep"
    /\ IF sleep(canceled)
       THEN /\ LeaveLoop
            /\ UNCHANGED << idx, files_since_pause >>
       ELSE /\ files_since_pause' = 0
            /\ idx' = idx + 1
            /\ pc' = "loop"
            /\ UNCHANGED state
    /\ UNCHANGED << envVars, optVars, defVars, cntVars, listVars, fileVars, sdVars,
                    fnVars, error, qdb, pending, schVars, histVars >>

\* An idle loop that ends after its first wait
IdleOnce ==
    /\ pc = "idle"
    /\ pc' = "finally"
    /\ UNCHANGED << envVars, optVars, defVars, cntVars, listVars, fileVars, histVars,
                    sdVars, fnVars, state, error, qdb, pending, schVars, idx,
                    files_since_pause >>

\* while not self.cancel_thread: if self.sleeper.sleep(60): break
Idle ==
    /\ pc = "idle"
    /\ IF cancel_thread \/ sleep(canceled) THEN pc' = "finally" ELSE pc' = "idle"
    /\ UNCHANGED << envVars, optVars, defVars, cntVars, listVars, fileVars, histVars,
                    sdVars, fnVars, state, error, qdb, pending, schVars, idx,
                    files_since_pause >>

\* QuestDBClient.close
Closed == [ingest |-> FALSE, query |-> FALSE]

\* finally: self.questdb.close()
Finally ==
    /\ pc = "finally"
    /\ qdb' = Closed
    /\ pc' = "done"
    /\ UNCHANGED << envVars, optVars, defVars, cntVars, listVars, fileVars, histVars,
                    sdVars, fnVars, state, error, pending, schVars, idx,
                    files_since_pause >>

\* ------------------------------------------------------------ shutdown()
\* self.sleeper.cancel()
ShutdownCancel ==
    /\ spc = "ready"
    /\ canceled' = TRUE
    /\ spc' = "close"
    /\ UNCHANGED << envVars, optVars, defVars, cntVars, listVars, fileVars, histVars,
                    fnVars, pc, state, error, cancel_thread, qdb, pending,
                    schVars, idx, files_since_pause >>

\* self.questdb.close()
ShutdownClose ==
    /\ spc = "close"
    /\ qdb' = Closed
    /\ spc' = "flag"
    /\ UNCHANGED << envVars, optVars, defVars, cntVars, listVars, fileVars, histVars,
                    fnVars, pc, state, error, cancel_thread, canceled, pending,
                    schVars, idx, files_since_pause >>

\* super().shutdown(): self.cancel_thread = True
ShutdownFlag ==
    /\ spc = "flag"
    /\ cancel_thread' = TRUE
    /\ spc' = "done"
    /\ UNCHANGED << envVars, optVars, defVars, cntVars, listVars, fileVars, histVars,
                    fnVars, pc, state, error, canceled, qdb, pending,
                    schVars, idx, files_since_pause >>

Next ==
    \/ InitialDelay
    \/ ConnectIngest
    \/ ConnectQuery
    \/ LoadValidTargetsPackets
    \/ ListAndFilter
    \/ LoopHead
    \/ Packet
    \/ WriteRow
    \/ Recover
    \/ BatchFlush
    \/ BatchSleep
    \/ FinalFlush
    \/ MoveCopy
    \/ MoveDelete
    \/ PauseSleep
    \/ Idle
    \/ Finally
    \/ ShutdownCancel
    \/ ShutdownClose
    \/ ShutdownFlag

Spec == Init /\ [][Next]_vars

\* The steps of run() other than the listing: the thread that executes run()
\* keeps running, and every call it makes returns or raises.
RunStep ==
    \/ InitialDelay
    \/ ConnectIngest
    \/ ConnectQuery
    \/ LoadValidTargetsPackets
    \/ LoopHead
    \/ Packet
    \/ WriteRow
    \/ Recover
    \/ BatchFlush
    \/ BatchSleep
    \/ FinalFlush
    \/ MoveCopy
    \/ MoveDelete
    \/ PauseSleep
    \/ Idle
    \/ Finally

\* The listing returns: run() leaves the call of _list_decom_files, which
\* it can at any time (ListAndFilter is enabled whenever pc = "list").
ListReturns == pc = "list" /\ pc' = "loop"

\* Runs over the eligible files that hold rows, with a throttle sleep after
\* every row and a pause after every file.
InitLive ==
    \E S \in SUBSET {1, 2, 5} :
        /\ Cardinality(S) <= MaxFiles
        /\ InitWith(BucketOf(S), << >>, 1, 1)

SpecLive == InitLive /\ [][Next]_vars /\ WF_vars(RunStep) /\ WF_pc(ListReturns)

\* ----------------------------------- _should_process_file, applied once
\* The file names and the snapshots _should_process_file is applied to.
FilterFiles ==
    { Key(d, FName(300, t, pk, "bin")) :
        d \in {TlmPrefix \o <<"INST", "20260101">>, CmdPrefix \o <<"INST", "20260101">>},
        t \in {"INST", "OLD", None},
        pk \in {"ALL", "HEALTH", "ABORT", None} }

FilterTargets == {"INST", "OLD"}
FilterPackets == {"HEALTH", "ABORT"}

InitFilter ==
    /\ InitFields
    /\ bucket = BucketOf({})
    /\ bucket0 = BucketOf({})
    /\ checkpoint = << >>
    /\ batch_size = DefaultBatchSize
    /\ files_before_pause = DefaultFilesBeforePause
    /\ pc = "apply"
    /\ \E vt \in SUBSET FilterTargets :
          /\ valid_targets = vt
          /\ valid_tlm_packets \in [vt -> SUBSET FilterPackets]
          /\ valid_cmd_packets \in [vt -> SUBSET FilterPackets]
    /\ \E f \in FilterFiles : arg = << f >>

ApplyFilter ==
    /\ pc = "apply"
    /\ ret' = << _should_process_file(arg[1], valid_targets, valid_tlm_packets,
                                      valid_cmd_packets) >>
    /\ pc' = "applied"
    /\ UNCHANGED << envVars, optVars, defVars, cntVars, listVars, fileVars, histVars,
                    sdVars, arg, state, error, qdb, pending, schVars, idx,
                    files_since_pause >>

SpecFilter == InitFilter /\ [][ApplyFilter]_vars

\* ------------------------------- a sequence of _load_table_schema calls
\* The table names the calls are made for.
SchemaTables ==
    { <<"TLM", "INST", "HEALTH">>, <<"TLM", "INST", "ADCS">>, <<"CMD", "INST", "ABORT">> }

\* The sequences of at most n table names.
RECURSIVE CallSeqs(_)
CallSeqs(n) ==
    IF n = 0 THEN { << >> }
    ELSE CallSeqs(n - 1)
         \cup { Append(c, t) : c \in { d \in CallSeqs(n - 1) : Len(d) = n - 1 },
                               t \in SchemaTables }

\* After __init__, with the calls to come in arg.
InitSchema ==
    /\ InitFields
    /\ bucket = BucketOf({})
    /\ bucket0 = BucketOf({})
    /\ checkpoint = << >>
    /\ batch_size = DefaultBatchSize
    /\ files_before_pause = DefaultFilesBeforePause
    /\ pc = "schema"
    /\ valid_targets = {}
    /\ valid_tlm_packets = [t \in {} |-> {}]
    /\ valid_cmd_packets = [t \in {} |-> {}]
    /\ arg \in CallSeqs(MaxCalls)

\* self._load_table_schema(Head(arg)); ret records the call: its table,
\* whether the table was in the memo, how its query ended (<< >> when none
\* was issued) and whether an exception reached the caller.
LoadTableSchema ==
    /\ pc = "schema"
    /\ arg # << >>
    /\ \E out \in QueryOutcomes(Head(arg)) :
          LET r == _load_table_schema(Head(arg), loaded_schemas, tracked, queries, out)
          IN /\ loaded_schemas' = r.loaded_schemas
             /\ tracked' = r.tracked
             /\ queries' = r.queries
             /\ ret' = << [table |-> Head(arg),
                           memo |-> Head(arg) \in loaded_schemas,
                           failed |-> IF r.queries = queries THEN << >>
                                      ELSE << out.raised >>,
                           raised |-> r.raised] >>
    /\ arg' = Tail(arg)
    /\ UNCHANGED << envVars, optVars, defVars, cntVars, listVars, fileVars, histVars,
                    sdVars, pc, state, error, qdb, pending, idx, files_since_pause >>

SpecSchema == InitSchema /\ [][LoadTableSchema]_vars

\* --------------------------------------- a run that finds a checkpoint
\* A checkpoint of an earlier run names any log file as its last file.
InitResume ==
    \E S \in SUBSET (1..Len(Universe)) :
    \E k \in UKeys :
        /\ Cardinality(S) <= MaxFiles
        /\ InitWith(BucketOf(S), << [last_file |-> k] >>, MaxBatch, MaxPause)

SpecResume == InitResume /\ [][Next]_vars

\* ------------------------- a run after a move that did not delete its source
\* An earlier attempt wrote the mirror copy of one file (under processed/ or
\* error/) and failed to delete the original.
InitRetry ==
    \E S \in SUBSET (1..Len(Universe)) :
    \E i \in S :
    \E root \in {"processed", "error"} :
        /\ Cardinality(S) <= MaxFiles
        /\ LET k == Universe[i].key
           IN InitWith(put_object(BucketOf(S), MirrorPath(k, root), UBody(k)).bucket,
                       << >>, MaxBatch, MaxPause)

SpecRetry == InitRetry /\ [][Next]_vars

\* ------------------------------------------------------------ properties
Ts(f) == extract_timestamp_from_filename(f)

\* The log files in the bucket when the run started
Present0 == (DOMAIN bucket0) \cap UKeys

UnderCmdPrefix(f) == IsPrefix(CmdPrefix, f.dirs)

\* Discovery order: the telemetry prefix before the command prefix,
\* shallower directories before deeper ones, then listing order.
DiscoveredBefore(f, g) ==
    \/ ~UnderCmdPrefix(f) /\ UnderCmdPrefix(g)
    \/ /\ UnderCmdPrefix(f) = UnderCmdPrefix(g)
       /\ \/ Len(f.dirs) < Len(g.dirs)
          \/ Len(f.dirs) = Len(g.dirs) /\ UIndex(f) < UIndex(g)

InFile == pc \in {"packet", "write", "recover", "batch_flush", "batch_sleep", "final_flush"}

\* C1: the catalog is sorted descending by the timestamp of the file name,
\* files of equal timestamp are in discovery order, the files to process are
\* the eligible files of the catalog in catalog order, and run() visits them
\* in that order, one at a time.
C1_CatalogOrderVisited ==
    /\ Range(catalog) \subseteq { f \in Present0 : IsLogFile(f) }
    /\ \A i, j \in 1..Len(catalog) :
          i < j => /\ Ts(catalog[i]) >= Ts(catalog[j])
                   /\ Ts(catalog[i]) = Ts(catalog[j])
                        => DiscoveredBefore(catalog[i], catalog[j])
    /\ Range(files) = { f \in Range(catalog) :
                           _should_process_file(f, valid_targets, valid_tlm_packets,
                                                valid_cmd_packets) }
    /\ \A i, j \in 1..Len(files) :
          i < j => \E m, n \in 1..Len(catalog) :
                      m < n /\ catalog[m] = files[i] /\ catalog[n] = files[j]
    /\ Len(visited) <= Len(files)
    /\ visited = SubSeq(files, 1, Len(visited))
    /\ Len(visited) = files_processed + (IF InFile THEN 1 ELSE 0)

\* Two files of equal timestamp, one found under the command prefix and one
\* deeper under the telemetry prefix, have both been visited.
C1_Witness ==
    /\ Len(visited) = 2
    /\ Ts(visited[1]) = Ts(visited[2])
    /\ Len(visited[1].dirs) > 4
    /\ UnderCmdPrefix(visited[2])

\* C2: _should_process_file is true exactly when the target of the file name
\* is in the target set and the packet name is ALL or is in the packet set of
\* that target for the direction of the file (command set under the command
\* prefix, telemetry set otherwise).
C2_Eligibility ==
    ret # << >> =>
        LET f == arg[1]
            target == parse_target_packet_from_filename(f)[1]
            packet == parse_target_packet_from_filename(f)[2]
        IN ret[1] = ( /\ target \in valid_targets
                      /\ \/ packet = "ALL"
                         \/ packet \in (IF UnderCmdPrefix(f)
                                          THEN valid_cmd_packets[target]
                                          ELSE valid_tlm_packets[target]) )

\* A command file is rejected although its packet is defined for its target
\* as a telemetry packet.
C2_Witness ==
    /\ ret = << FALSE >>
    /\ UnderCmdPrefix(arg[1])
    /\ arg[1].name.target \in valid_targets
    /\ arg[1].name.packet \in valid_tlm_packets[arg[1].name.target]

\* C3: when a checkpoint exists, the run processes no file whose timestamp is
\* greater than or equal to that of the checkpoint's last file.
C3_ResumeTrims ==
    checkpoint # << >> =>
        \A i \in 1..Len(visited) : Ts(visited[i]) < Ts(checkpoint[1].last_file)

\* The rows of a file for which process_json_data yields columns
RECURSIVE RowCount(_)
RowCount(pkts) ==
    IF pkts = << >> THEN 0
    ELSE (IF Head(pkts).cols THEN 1 ELSE 0) + RowCount(Tail(pkts))

\* _process_file has just returned for a file it read to the end without an
\* exception and without leaving the packet loop early.
FileDrained ==
    /\ Len(routes) = Len(visited)
    /\ Len(moveRes) < Len(routes)
    /\ pc = MoveOrder[1]
    /\ ~had_error
    /\ ~broke

LastRows == RowCount(UBody(visited[Len(visited)]).pkts)

\* C4 as stated: N rows with batch size B are flushed ceil(N/B) times.
C4_CeilFlushes ==
    FileDrained => flushes = (LastRows + batch_size - 1) \div batch_size

\* C4: N rows with batch size B are flushed floor(N/B) + 1 times: once after
\* each full batch of B rows and once more at the end of the file, whether or
\* not the last batch was partial.
C4_FlushPerBatchPlusFinal ==
    FileDrained => /\ flushes = (LastRows \div batch_size) + 1
                   /\ packets_in_file = LastRows

\* A file whose row count is a positive multiple of the batch size is done.
C4_Witness ==
    /\ FileDrained
    /\ LastRows > 0
    /\ LastRows % batch_size = 0
    /\ batch_size > 1

InMove == pc \in {"mv_copy", "mv_delete"}

RECURSIVE CountOf(_, _)
CountOf(seq, x) ==
    IF seq = << >> THEN 0
    ELSE (IF Head(seq) = x THEN 1 ELSE 0) + CountOf(Tail(seq), x)

\* C5 as stated: a pause begins only after files_before_pause files that
\* completed without error, and only when another file follows.
C5_PauseOnlyAfterGoodFiles ==
    pc = "pause_sleep" =>
        /\ idx + 1 < Len(files)
        /\ pauses * files_before_pause = CountOf(routes, "processed")

\* C5: after every files_before_pause visited files, errored or not, exactly
\* one pause begins, after the move of that file and before the next file
\* begins, also when no file follows.
C5_PauseCadence ==
    /\ (InFile \/ InMove) =>
           pauses = (Len(visited) - 1) \div files_before_pause
    /\ pc \in {"loop", "pause_sleep", "idle"} =>
           pauses = Len(visited) \div files_before_pause
    /\ state.name = "PAUSED" => pc \in {"pause_sleep", "loop"}
    /\ pc = "pause_sleep" =>
           /\ state.name = "PAUSED"
           /\ Len(visited) % files_before_pause = 0
           /\ files_since_pause = files_before_pause
    /\ pc = "loop" => files_since_pause = Len(visited) % files_before_pause

\* A pause has begun after the last file of the catalog, one of the counted
\* files having ended with an error.
C5_Witness ==
    /\ pc = "pause_sleep"
    /\ files_before_pause > 1
    /\ idx + 1 = Len(files)
    /\ CountOf(routes, "error") > 0

Mirror(i) == MirrorPath(visited[i], routes[i])

OtherRoot(r) == IF r = "processed" THEN "error" ELSE "processed"

\* The file loop was left with no cancellation in sight.
LoopLeftUncancelled ==
    /\ pc \in {"idle", "finally", "done"}
    /\ state.name = "COMPLETE"
    /\ spc = "ready"

\* C6: a file whose processing raised no exception is routed to processed/
\* and never written under error/; a file whose processing raised is counted
\* once in errors_count, routed to error/ and never written under
\* processed/; and the run goes on with the next file.
C6_Routing ==
    /\ Len(routes) = Len(raised)
    /\ \A i \in 1..Len(routes) :
          /\ routes[i] = (IF raised[i] THEN "error" ELSE "processed")
          /\ MirrorPath(visited[i], OtherRoot(routes[i])) \notin puts
    /\ errors_count = CountOf(raised, TRUE)
    /\ \A i \in 1..Len(moveRes) :
          moveRes[i] = "ok" => /\ Mirror(i) \in DOMAIN bucket
                               /\ Mirror(i) \in puts
                               /\ visited[i] \notin DOMAIN bucket
    /\ visited # << >> => state.name # "ERROR"
    /\ LoopLeftUncancelled => Len(visited) = Len(files)

\* The first of two files raised and was moved to error/, the second went
\* through and was moved to processed/.
C6_Witness ==
    /\ Len(moveRes) = 2
    /\ raised = << TRUE, FALSE >>
    /\ moveRes = << "ok", "ok" >>
    /\ errors_count = 1

\* C7: every log file present at the start exists, with its content, at its
\* original key or at a mirror key; a move that failed leaves the original in
\* place, raises nothing in run(), and the run goes on with the next file.
C7_NoFileLost ==
    /\ \A k \in Present0 :
          \/ k \in DOMAIN bucket /\ bucket[k] = bucket0[k]
          \/ \E root \in {"processed", "error"} :
                /\ MirrorPath(k, root) \in DOMAIN bucket
                /\ bucket[MirrorPath(k, root)] = bucket0[k]
    /\ \A i \in 1..Len(moveRes) :
          moveRes[i] # "ok" => /\ visited[i] \in DOMAIN bucket
                               /\ bucket[visited[i]] = bucket0[visited[i]]
                               /\ error = None
                               /\ state.name # "ERROR"
    /\ (LoopLeftUncancelled /\ \E i \in 1..Len(moveRes) : moveRes[i] # "ok")
          => Len(visited) = Len(files)

\* The delete of the first file failed after its copy was written; the run
\* has gone on to the second file.
C7_Witness ==
    /\ Len(visited) = 2
    /\ moveRes[1] = "delete_failed"
    /\ visited[1] \in DOMAIN bucket
    /\ Mirror(1) \in DOMAIN bucket

\* C8: a move of a file whose mirror object already exists is not refused;
\* when its storage calls go through, the original is deleted and the mirror
\* object holds the content of the original.
C8_MoveRetryIdempotent ==
    \A i \in 1..Len(moveRes) :
        /\ moveRes[i] \in {"ok", "copy_failed", "delete_failed"}
        /\ moveRes[i] = "ok" => /\ visited[i] \notin DOMAIN bucket
                                 /\ Mirror(i) \in DOMAIN bucket
                                 /\ bucket[Mirror(i)] = bucket0[visited[i]]

\* A file whose mirror object existed at the start has been moved.
C8_Witness ==
    \E i \in 1..Len(moveRes) :
        /\ moveRes[i] = "ok"
        /\ Mirror(i) \in DOMAIN bucket0

\* C9: when connecting or loading the target list fails, the state is ERROR,
\* the error is recorded, no file is processed or moved, the run never
\* completes or idles, and it returns with the connection closed.
C9_FatalAborts ==
    error # None =>
        /\ error \in {"connect_ingest", "connect_query", "get_target_names"}
        /\ state.name = "ERROR"
        /\ pc \in {"finally", "done"}
        /\ visited = << >>
        /\ files_processed = 0
        /\ puts = {}
        /\ bucket = bucket0
        /\ pc = "done" => qdb = Closed

\* The query connection failed with log files waiting, and run() returned.
C9_Witness ==
    /\ error = "connect_query"
    /\ pc = "done"
    /\ Present0 # {}

FileDirection(f) == IF UnderCmdPrefix(f) THEN "cmd" ELSE "tlm"

\* C10: the definitions are loaded once, before any file is processed; a
\* packet list that fails to load leaves its target in the target set with
\* an empty packet set for that direction, so that only ALL files of that
\* target and direction are processed, and the run goes on; a target list
\* that fails to load aborts the run.
C10_SnapshotOnce ==
    /\ loads <= 1
    /\ visited # << >> => loads = 1
    /\ (loads = 1 /\ error = None) =>
          /\ valid_targets = LiveTargets
          /\ DOMAIN valid_tlm_packets = LiveTargets
          /\ DOMAIN valid_cmd_packets = LiveTargets
          /\ \A t \in LiveTargets :
                /\ valid_tlm_packets[t] =
                      (IF <<t, "tlm">> \in failed_lists THEN {} ELSE LiveTlm[t])
                /\ valid_cmd_packets[t] =
                      (IF <<t, "cmd">> \in failed_lists THEN {} ELSE LiveCmd[t])
    /\ \A i \in 1..Len(files) :
          << files[i].name.target, FileDirection(files[i]) >> \in failed_lists
              => files[i].name.packet = "ALL"
    /\ failed_lists # {} => error = None
    /\ error = "get_target_names" =>
          /\ loads = 1
          /\ valid_targets = {}
          /\ state.name = "ERROR"
          /\ visited = << >>

\* The telemetry packet list of INST failed to load and the ALL file of INST
\* is being processed.
C10_Witness ==
    /\ failed_lists = { <<"INST", "tlm">> }
    /\ Len(visited) = 1
    /\ visited[1].name.packet = "ALL"
    /\ InFile

\* C11: once the cancellation flag is seen set at a packet or file boundary, no
\* further row of the current file is submitted and no new file starts; a
\* throttle sleep that finds the sleeper cancelled is followed by no further
\* row of that file; and the packet counter of a file equals the number of
\* its rows the sender accepted.
C11_CancelStopsFile ==
    [][ /\ cancel_thread => visited' = visited
        /\ (pc = "packet" /\ cancel_thread)
              => /\ submitted' = submitted
                 /\ pc' \in {"final_flush", MoveOrder[1]}
        /\ (pc = "batch_sleep" /\ canceled /\ spc' = spc)
              => /\ broke'
                 /\ pc' = "final_flush"
        /\ (broke /\ visited' = visited)
              => /\ submitted' = submitted
                 /\ packets_in_file' = packets_in_file
        /\ packets_in_file' = submitted' ]_vars

\* The throttle sleep after the second batch of a file of three batches was
\* interrupted, the flag not yet set: two batches are submitted and counted,
\* the rows of the third are left.
C11_Witness ==
    /\ pc = "final_flush"
    /\ broke
    /\ ~cancel_thread
    /\ flushes = 2
    /\ submitted = 2 * batch_size
    /\ packets_in_file = submitted
    /\ RowCount(data) > submitted

\* C12: when the catalog is exhausted the state becomes COMPLETE and run()
\* enters the idle wait; from then on the state and the counters do not
\* change, and run() leaves the idle wait only after cancellation was
\* signalled.
C12_IdleUntilCancelled ==
    [][ /\ (pc = "loop" /\ idx >= Len(files) /\ spc' = spc)
              => /\ state'.name = "COMPLETE"
                 /\ pc' = "idle"
        /\ state.name = "COMPLETE"
              => /\ UNCHANGED << state, cntVars >>
                 /\ pc \in {"idle", "finally", "done"}
        /\ (pc = "idle" /\ pc' # "idle") => (canceled \/ cancel_thread)
        /\ (pc = "idle" /\ pc' = "idle") => state'.name = "COMPLETE" ]_vars

\* Every file of a non-empty catalog was visited, no cancellation was
\* signalled, and run() is in its idle wait.
C12_Witness ==
    /\ pc = "idle"
    /\ state.name = "COMPLETE"
    /\ Len(files) > 0
    /\ Len(visited) = Len(files)
    /\ spc = "ready"

\* C13: a sleep that finds the sleeper cancelled leads out of its loop at
\* each suspension point (startup delay, throttle sleep, pause, idle wait);
\* once shutdown() has cancelled the sleeper and set the flag no file is
\* started, and run() eventually returns.
C13_SuspensionsCancellable ==
    /\ [][ /\ (canceled /\ spc' = spc /\ pc = "start") => pc' = "returned"
           /\ (canceled /\ spc' = spc /\ pc = "batch_sleep") => pc' = "final_flush"
           /\ (canceled /\ spc' = spc /\ pc = "pause_sleep") => pc' = "idle"
           /\ (canceled /\ spc' = spc /\ pc = "idle") => pc' = "finally"
           /\ spc = "done" => visited' = visited ]_vars
    /\ (spc = "done") ~> (pc \in {"done", "returned"})

\* run() has returned after shutdown() with files of the catalog not visited.
C13_Witness ==
    /\ spc = "done"
    /\ pc = "done"
    /\ Len(visited) > 0
    /\ Len(visited) < Len(files)

\* A step of run() in which the file in progress ends with an exception:
\* counted once, marked had_error, routed to error/, no row added.
FileFailsNow ==
    /\ pc' = MoveOrder[1]
    /\ had_error'
    /\ errors_count' = errors_count + 1
    /\ raised' = Append(raised, TRUE)
    /\ routes' = Append(routes, "error")
    /\ packets_in_file' = packets_in_file
    /\ submitted' = submitted
    /\ packets_ingested' = packets_ingested + packets_in_file

RecoveryCalls == wlog.recov + (IF pc = "recover" THEN 1 ELSE 0)

\* C14 as stated: every row write that failed is followed by exactly one
\* recovery attempt.
C14_EveryFailedWriteRecovered ==
    RecoveryCalls = wlog.wfails + wlog.wother

\* C14: a row write that raises IngressError is followed by exactly one call
\* of handle_ingress_error and the row is not written again by the loop; when
\* that call raises, the file ends there, counted once in errors_count and
\* marked had_error, and the row is not counted; a row write that raises
\* another exception gets no recovery call and ends the file the same way.
C14_IngressErrorRecoveredOnce ==
    [][ /\ wlog'.recov + (IF pc' = "recover" THEN 1 ELSE 0) = wlog'.wfails
        /\ (pc = "recover" /\ spc' = spc)
              => \/ /\ wlog'.rfail = wlog.rfail
                    /\ pc' \in {"packet", "batch_flush"}
                    /\ packets_in_file' = packets_in_file + 1
                    /\ submitted' = submitted + 1
                    /\ UNCHANGED << errors_count, had_error >>
                 \/ /\ wlog'.rfail = wlog.rfail + 1
                    /\ FileFailsNow
        /\ wlog'.wother > wlog.wother
              => /\ wlog'.recov = wlog.recov
                 /\ FileFailsNow ]_vars

\* The recovery of the second row of a file raised: the file has ended with
\* one row counted.
C14_Witness ==
    /\ pc = MoveOrder[1]
    /\ wlog.rfail = 1
    /\ had_error
    /\ packets_in_file = 1
    /\ errors_count = 1

\* C15: once a file is completed (processed and moved) and the next file has
\* started or the file loop is over, the single checkpoint of the scope names
\* the most recently completed file as its last file.
C15_CheckpointNamesLastFile ==
    (/\ Len(moveRes) > 0
     /\ \/ Len(visited) > Len(moveRes)
        \/ pc \in {"idle", "finally", "done"})
        => /\ Len(checkpoint) = 1
           /\ checkpoint[1].last_file = visited[Len(moveRes)]

\* The changes of state the claim lists, with the first assignment of
\* STARTING.
ListedEdges ==
    { << "INITIALIZED", "STARTING" >>, << "STARTING", "MIGRATING" >>,
      << "MIGRATING", "PAUSED" >>, << "PAUSED", "MIGRATING" >>,
      << "MIGRATING", "MIGRATING" >>, << "MIGRATING", "COMPLETE" >> }

\* C16 as stated: the state changes only along the listed edges or to ERROR;
\* COMPLETE is entered from MIGRATING only, and COMPLETE and ERROR are final.
C16_ListedEdgesOnly ==
    [][ state' # state
          => /\ state.name \notin {"COMPLETE", "ERROR"}
             /\ \/ << state.name, state'.name >> \in ListedEdges
                \/ state'.name = "ERROR" ]_vars

\* C16: the state changes only along the listed edges, to ERROR, from
\* STARTING to COMPLETE (no file is eligible, or the flag is set before the
\* first file) or from PAUSED to COMPLETE (the pause after the last file, or
\* an interrupted pause); MIGRATING shows the one-based index of the file in
\* progress and the number of files; COMPLETE and ERROR are final.
C16_StateEdges ==
    [][ /\ state' # state
          => /\ state.name \notin {"COMPLETE", "ERROR"}
             /\ \/ << state.name, state'.name >> \in ListedEdges
                \/ state'.name = "ERROR"
                \/ /\ state.name = "STARTING"
                   /\ state'.name = "COMPLETE"
                   /\ files = << >> \/ cancel_thread
                \/ /\ state.name = "PAUSED"
                   /\ state'.name = "COMPLETE"
                   /\ Len(visited) = Len(files) \/ canceled
        /\ state'.name = "MIGRATING"
              => /\ state'.i = Len(visited')
                 /\ state'.n = Len(files')
                 /\ state.name = "MIGRATING" => state'.i >= state.i ]_vars

\* The run has paused after the only file of its catalog and then completed.
C16_Witness ==
    /\ state.name = "COMPLETE"
    /\ pauses = 1
    /\ Len(visited) = 1
    /\ Len(files) = 1
    /\ spc = "ready"

\* C17: a file routed to processed/ was read to its last packet; a file whose
\* packet loop was left by a break (flag seen, or throttle sleep interrupted)
\* is not routed to processed/ and not counted in files_processed.
C17_ProcessedOnlyIfDrained ==
    (InMove /\ broke)
        => /\ routes[Len(routes)] # "processed"
           /\ files_processed = Len(visited) - 1

\* C18: whenever the state is COMPLETE every eligible file of the run has
\* been visited and counted; a run whose file loop was left by a break never
\* reports COMPLETE.
C18_CompleteMeansExhausted ==
    state.name = "COMPLETE"
        => /\ Len(visited) = Len(files)
           /\ files_processed = Len(files)

\* C19: run() is never about to flush, or to recover a row, on a connection
\* shutdown() has closed, and as long as no call has failed for another
\* reason no file is counted in errors_count or routed to error/.
C19_ShutdownNeverFailsFile ==
    /\ pc \in {"recover", "batch_flush", "final_flush"} => qdb.ingest
    /\ faults = MaxFaults
          => /\ errors_count = 0
             /\ "error" \notin Range(routes)

\* C20 as stated: whenever a file is about to be moved, to processed/ or to
\* error/, no row submitted to the sender is still unflushed.
C20_FlushedBeforeAnyMove ==
    InMove => pending = 0

\* C20: when a file is about to be moved to processed/ (it was read to its
\* end, or its packet loop was left by a break) a flush has returned after
\* its last submitted row and no submitted row is unflushed; a file whose
\* processing ended with an exception is moved to error/ with no flush after
\* the exception.
C20_FlushedBeforeProcessed ==
    /\ (InMove /\ routes[Len(routes)] = "processed")
          => /\ pending = 0
             /\ flushes >= 1
             /\ ~raised[Len(raised)]
    /\ (InMove /\ pending > 0) => raised[Len(raised)]

\* A file whose packet loop was left by a break after a submitted row is
\* about to be moved to processed/.
C20_Witness ==
    /\ pc = MoveOrder[1]
    /\ routes[Len(routes)] = "processed"
    /\ broke
    /\ submitted > 0
    /\ submitted < LastRows

\* C21: over any sequence of _load_table_schema calls the column query is
\* issued at most once per table; a call for a table already in the memo
\* issues no query and leaves the column tracking state as it was; a query
\* that raises reaches no caller and still puts its table in the memo, so
\* that no later call queries for it again.
C21_SchemaLoadedOncePerTable ==
    [][arg' # arg =>
          LET call == ret'[1]
          IN /\ \A t \in DOMAIN queries' : queries'[t] <= 1
             /\ call.memo => /\ call.failed = << >>
                             /\ tracked' = tracked
                             /\ queries' = queries
                             /\ loaded_schemas' = loaded_schemas
             /\ ~call.memo => /\ call.failed # << >>
                              /\ queries'[call.table] = 1
             /\ ~call.raised
             /\ call.table \in loaded_schemas']_vars

\* A table whose query raised has been called for again, after another
\* table's columns were registered.
C21_Witness ==
    /\ ret # << >>
    /\ ret[1].memo
    /\ ret[1].table \notin DestTables
    /\ queries[ret[1].table] = 1
    /\ tracked # NoTracking

====
